---------------------------- MODULE Spec2Model ----------------------------
(***************************************************************************)
(* Latent space alignment utilities (src/utils/rotate.py).                 *)
(*                                                                         *)
(* Three operations are modelled, each under its own specification:        *)
(*   SpecExtract  extract_latent_coordinates                               *)
(*   SpecAlign    align_latent_spaces                                      *)
(*   SpecRewrite  create_aligned_draws_dataframe                           *)
(*                                                                         *)
(* Matrices are 0-based functions [0..n-1 -> [0..D-1 -> value]], as the    *)
(* numpy arrays of the source are; a parameter column name                 *)
(* f"{prefix}[{i + 1},{d + 1}]" is the tuple <<prefix, i + 1, d + 1>>.     *)
(* Real arithmetic is exact: a mean is a reduced fraction, and a Procrustes*)
(* result is kept as num / (den * sqrt(rad)) with integer num, den, rad.   *)
(***************************************************************************)
EXTENDS Integers, Sequences, FiniteSets, TLC

VARIABLES
    \* ---- extract_latent_coordinates
    df_draws,        \* the draws table passed in
    n_entities,      \* parameter n_entities
    D,               \* parameter D
    prefix,          \* parameter prefix
    ext_todo,        \* chain ids of df_draws["chain__"].unique() not yet processed
    chain_means,     \* the local dict chain_means
    ext_result,      \* outcome of the call: pending, return (value) or raise
    \* ---- align_latent_spaces
    person_coords,   \* parameter person_coords (dict chain -> matrix)
    item_coords,     \* parameter item_coords
    ref_chain_id,    \* parameter ref_chain_id
    svd_sign,        \* LAPACK's choice of sign for a null singular direction
    aln_pc,          \* "start", "loop", "done"
    aln_todo,        \* keys of person_coords not yet visited by the for loop
    reference_matrix,
    aligned_person_coords,
    aligned_item_coords,
    printed,         \* what print() has written: <<chain_id, disparity>> entries
    aln_result,      \* outcome of the call
    array_ids,       \* which memory each matrix of the four dicts occupies
    caller_wrote,    \* the element the caller assigned to after the call, if any
    \* ---- create_aligned_draws_dataframe
    frames,          \* the DataFrame objects that exist: object id -> table
    original_draws,  \* parameter original_draws (an object id)
    draws_before,    \* the value of the caller's table when the call was made
    rw_person,       \* parameter aligned_person_coords
    rw_item,         \* parameter aligned_item_coords
    rw_D,            \* parameter D
    rw_result,       \* outcome of the call (value: an object id)
    \* ---- collapse_scores_equal_freq
    cs_frames,       \* the DataFrame objects that exist: object id -> table
    cs_df,           \* parameter df (an object id)
    cs_before,       \* the value of the caller's table when the call was made
    cs_result,       \* outcome of the call (value: an object id)
    \* ---- run_stan_model
    stan_data,       \* parameter stan_data: its entries n_persons, n_items, D
    df_fit,          \* the draws table fit.draws_pd() gave
    pipe_pc,         \* the statement the function is at
    person_chain_coords,
    pipe_result,     \* outcome of the call (value: the object id of df_fit_aligned)
    \* ---- parse_process_data
    events,          \* root.findall(".//event", ns): the events in document order
    ev_pos,          \* position in events of the event the loop takes next
    items_data,
    current_item,
    item_start_time,
    interactions,
    exhibit_interactions,
    parse_result     \* outcome of the call (value: the list under "items")

ext_vars == <<df_draws, n_entities, D, prefix, ext_todo, chain_means, ext_result>>
aln_vars == <<person_coords, item_coords, ref_chain_id, svd_sign, aln_pc, aln_todo,
              reference_matrix, aligned_person_coords, aligned_item_coords,
              printed, aln_result, array_ids, caller_wrote>>
rw_vars  == <<frames, original_draws, draws_before, rw_person, rw_item, rw_D,
              rw_result>>
cs_vars  == <<cs_frames, cs_df, cs_before, cs_result>>
pipe_vars == <<stan_data, df_fit, pipe_pc, person_chain_coords, pipe_result>>
parse_vars == <<events, ev_pos, items_data, current_item, item_start_time,
                interactions, exhibit_interactions, parse_result>>
aux_vars == <<cs_vars, pipe_vars, parse_vars>>
vars     == <<ext_vars, aln_vars, rw_vars, aux_vars>>

-----------------------------------------------------------------------------
(* Bounds of the model *)

\* most draws (rows) in a draws table
MaxDraws == 2
\* sampled values in a draws table are 0..MaxVal
MaxVal == 1
\* input coordinates of the aligner are 0..MaxCoord
MaxCoord == 1

\* chain identifiers in use (positive, not contiguous)
ChainIds == {1, 3}

-----------------------------------------------------------------------------
(* Outcomes of a call *)

Pending      == [kind |-> "pending"]
Return(v)    == [kind |-> "return", value |-> v]
Raise(e)     == [kind |-> "raise", error |-> e]

\* the empty dict
EmptyDict == << >>

\* d[k] = v on a dict (insert or overwrite)
DictSet(d, k, v) == [x \in (DOMAIN d) \cup {k} |-> IF x = k THEN v ELSE d[x]]

-----------------------------------------------------------------------------
(* Column names and tables *)

ChainCol == <<"chain__">>
OtherCol == <<"lp__">>

\* f"{prefix}[{i + 1},{d + 1}]" for the 0-based loop indices i, d
ParamName(pfx, i, d) == <<pfx, i + 1, d + 1>>

\* a table: its column index and its rows in order; a row maps column -> value
Table(cols, rows) == [columns |-> cols, rows |-> rows]

-----------------------------------------------------------------------------
(* Exact fractions *)

Abs(x) == IF x < 0 THEN -x ELSE x

RECURSIVE GCD(_, _)
GCD(a, b) == IF b = 0 THEN a ELSE GCD(b, a % b)

\* the fraction n/d (d > 0) in lowest terms
Frac(n, d) ==
    LET g == GCD(Abs(n), d)
    IN [num |-> n \div g, den |-> d \div g]

RECURSIVE SumSeq(_)
SumSeq(s) == IF s = << >> THEN 0 ELSE s[Len(s)] + SumSeq(SubSeq(s, 1, Len(s) - 1))

\* pandas/numpy mean of a non-empty sequence of numbers: sum / count
Mean(s) == Frac(SumSeq(s), Len(s))

-----------------------------------------------------------------------------
(* extract_latent_coordinates, rotate.py:82-119 *)

KeyError == [error |-> "KeyError"]

RECURSIVE Unique(_)
\* Series.unique(): the distinct values in order of first appearance
Unique(s) ==
    IF s = << >> THEN << >>
    ELSE LET front == Unique(SubSeq(s, 1, Len(s) - 1))
             x == s[Len(s)]
         IN IF \E k \in 1..Len(front) : front[k] = x THEN front ELSE Append(front, x)

\* frame[col] as a sequence of values
Column(frame, col) == [k \in 1..Len(frame.rows) |-> frame.rows[k][col]]

\* mutant of ChainRows: the boolean mask is dropped, every draw is kept
ChainRowsUnfiltered(frame, chain_id) == frame

\* df_draws[df_draws["chain__"] == chain_id]
ChainRows(frame, chain_id) ==
    Table(frame.columns, SelectSeq(frame.rows, LAMBDA r : r[ChainCol] = chain_id))

\* chain_df.drop(columns="chain__").mean(): a Series indexed by the remaining columns
MeanParams(chain_df) ==
    [c \in chain_df.columns \ {ChainCol} |-> Mean(Column(chain_df, c))]

\* mutant of SeriesGet: a missing label reads as 0 (the np.zeros initial value)
SeriesGetOrZero(series, label) ==
    IF label \in DOMAIN series THEN series[label] ELSE Frac(0, 1)

\* series[label]: the value, or KeyError when the label is not in the index
SeriesGet(series, label) ==
    IF label \in DOMAIN series THEN series[label] ELSE KeyError

\* the matrix filled by the loops over i and d (rotate.py:111-115)
FillMatrix(mean_params, n, dims, pfx) ==
    [i \in 0..(n - 1) |->
        [d \in 0..(dims - 1) |-> SeriesGet(mean_params, ParamName(pfx, i, d))]]

\* the loops raise when some lookup raises
FillRaises(matrix) ==
    \E i \in DOMAIN matrix : \E d \in DOMAIN matrix[i] : matrix[i][d] = KeyError

\* one iteration of `for chain_id in df_draws["chain__"].unique()` that completes
ExtractChain ==
    /\ ext_result = Pending
    /\ ext_todo # << >>
    /\ LET chain_id == Head(ext_todo)
           chain_df == ChainRows(df_draws, chain_id)
           mean_params == MeanParams(chain_df)
           matrix == FillMatrix(mean_params, n_entities, D, prefix)
       IN /\ ~FillRaises(matrix)
          /\ chain_means' = DictSet(chain_means, chain_id, matrix)
          /\ ext_todo' = Tail(ext_todo)
    /\ UNCHANGED <<df_draws, n_entities, D, prefix, ext_result>>
    /\ UNCHANGED <<aln_vars, rw_vars, aux_vars>>

\* an iteration in which mean_params[param_name] raises: the call ends, no return
ExtractRaise ==
    /\ ext_result = Pending
    /\ ext_todo # << >>
    /\ LET chain_id == Head(ext_todo)
           chain_df == ChainRows(df_draws, chain_id)
           mean_params == MeanParams(chain_df)
           matrix == FillMatrix(mean_params, n_entities, D, prefix)
       IN FillRaises(matrix)
    /\ ext_result' = Raise("KeyError")
    /\ UNCHANGED <<df_draws, n_entities, D, prefix, ext_todo, chain_means>>
    /\ UNCHANGED <<aln_vars, rw_vars, aux_vars>>

\* return chain_means
ExtractReturn ==
    /\ ext_result = Pending
    /\ ext_todo = << >>
    /\ ext_result' = Return(chain_means)
    /\ UNCHANGED <<df_draws, n_entities, D, prefix, ext_todo, chain_means>>
    /\ UNCHANGED <<aln_vars, rw_vars, aux_vars>>

-----------------------------------------------------------------------------
(* Real numbers of the aligner, exactly: num / (den * sqrt(rad)) in the unique *)
(* form with den > 0, gcd(num, den) = 1, rad square-free, and 0 = 0/(1*sqrt 1) *)

\* largest s with s*s dividing n (n > 0)
SquarePart(n) ==
    LET roots == { s \in 1..n : s * s <= n /\ n % (s * s) = 0 }
    IN CHOOSE s \in roots : \A t \in roots : t <= s

\* num / (den * sqrt(rad)) for square-free rad
Reduced(num, den, rad) ==
    IF num = 0 THEN [num |-> 0, den |-> 1, rad |-> 1]
    ELSE LET g == GCD(Abs(num), den)
         IN [num |-> num \div g, den |-> den \div g, rad |-> rad]

\* num / (den * sqrt(rad))
Real(num, den, rad) ==
    LET s == SquarePart(rad)
    IN Reduced(num, den * s, rad \div (s * s))

\* the real number equal to the integer x
RealOfInt(x) == Real(x, 1, 1)

\* the integer a real number is (inputs of the aligner are integer valued)
IntOfReal(r) == r.num

\* shape of a matrix: <<rows, columns>>; a matrix without rows has 0 columns
Shape(m) ==
    LET n == Cardinality(DOMAIN m)
    IN <<n, IF n = 0 THEN 0 ELSE Cardinality(DOMAIN m[0])>>

\* an expression that may raise evaluates to Ok(value) or Err(exception)
Ok(v)  == [ok |-> TRUE, val |-> v]
Err(e) == [ok |-> FALSE, error |-> e]

\* np.vstack([a, b]): a on top of b; ValueError when the widths differ
VStack(a, b) ==
    IF Shape(a)[2] # Shape(b)[2] THEN Err("ValueError")
    ELSE LET na == Shape(a)[1]
             nb == Shape(b)[1]
         IN Ok([i \in 0..(na + nb - 1) |-> IF i < na THEN a[i] ELSE b[i - na]])

\* m[:k, :]
RowsBefore(m, k) ==
    LET n == Shape(m)[1]
        stop == IF k < n THEN k ELSE n
    IN [i \in 0..(stop - 1) |-> m[i]]

\* mutant of RowsFrom: the slice starts one row late
RowsFromNext(m, k) ==
    LET n == Shape(m)[1]
        start == IF k + 1 < n THEN k + 1 ELSE n
    IN [i \in 0..(n - start - 1) |-> m[start + i]]

\* m[k:, :]
RowsFrom(m, k) ==
    LET n == Shape(m)[1]
        start == IF k < n THEN k ELSE n
    IN [i \in 0..(n - start - 1) |-> m[start + i]]

\* the matrix m itself, its entries computed once (its value is compared, which
\* makes the model checker tabulate it)
Tabulated(m) == IF m = m THEN m ELSE m

RECURSIVE SumTo(_, _)
\* f[0] + ... + f[n-1]
SumTo(f, n) == IF n = 0 THEN 0 ELSE f[n - 1] + SumTo(f, n - 1)

\* n times the centred matrix: n * (m - mean(m, axis 0)), an integer matrix
Centred(m) ==
    LET n == Shape(m)[1]
        w == Shape(m)[2]
        colsum == [d \in 0..(w - 1) |-> SumTo([i \in 0..(n - 1) |-> IntOfReal(m[i][d])], n)]
    IN [i \in 0..(n - 1) |-> [d \in 0..(w - 1) |-> n * IntOfReal(m[i][d]) - colsum[d]]]

\* squared Frobenius norm of an integer matrix
NormSq(c) ==
    LET n == Shape(c)[1]
        w == Shape(c)[2]
    IN SumTo([i \in 0..(n - 1) |-> SumTo([d \in 0..(w - 1) |-> c[i][d] * c[i][d]], w)], n)

\* a^T b for integer matrices of one shape
Gram(a, b) ==
    LET n == Shape(a)[1]
        w == Shape(a)[2]
    IN [p \in 0..(w - 1) |-> [q \in 0..(w - 1) |->
           SumTo([i \in 0..(n - 1) |-> a[i][p] * b[i][q]], n)]]

\* scipy.linalg.orthogonal_procrustes on A^T B = g / (|a| |b|): the product
\* scale * R = (sum of singular values) * U V^T, times |a| |b|.  For a 1 x 1 matrix
\* this is g; for a 2 x 2 matrix it is g + e * cof(g), with e the sign of det g,
\* and the sign LAPACK takes for the null direction when det g = 0.
ScaledRotation(g, tie) ==
    IF Shape(g)[1] = 1 THEN g
    ELSE LET det == g[0][0] * g[1][1] - g[0][1] * g[1][0]
             e == IF det > 0 THEN 1 ELSE IF det < 0 THEN -1 ELSE tie
         IN [p \in 0..1 |-> [q \in 0..1 |->
                g[p][q] + e * (IF p = q THEN g[1 - p][1 - q] ELSE -g[q][p])]]

\* scipy.spatial.procrustes(data1, data2): ValueError (shapes differ, or all the
\* points of an input coincide), or <<mtx1, mtx2, disparity>>
\* with mtx1 the standardised data1 (centred, unit Frobenius norm), mtx2 the
\* standardised data2 rotated and scaled onto mtx1, disparity = sum((mtx1-mtx2)^2)
Procrustes(data1, data2, tie) ==
    IF Shape(data1) # Shape(data2) \/ Shape(data1)[1] = 0 \/ Shape(data1)[2] = 0
    THEN Err("ValueError")
    ELSE LET n == Shape(data1)[1]
             w == Shape(data1)[2]
             c1 == Tabulated(Centred(data1))
             c2 == Tabulated(Centred(data2))
             norm1 == NormSq(c1)
             norm2 == NormSq(c2)
         IN IF norm1 = 0 \/ norm2 = 0 THEN Err("ValueError")
            ELSE LET sr == Tabulated(ScaledRotation(Tabulated(Gram(c1, c2)), tie))
                     root1 == SquarePart(norm1)
                     rad1 == norm1 \div (root1 * root1)
                     \* norm2 * sqrt(norm1) * mtx2 = c2 . sr^T
                     rot == Tabulated([i \in 0..(n - 1) |-> [p \in 0..(w - 1) |->
                                SumTo([q \in 0..(w - 1) |-> c2[i][q] * sr[p][q]], w)]])
                     mtx1 == [i \in 0..(n - 1) |-> [d \in 0..(w - 1) |->
                                Reduced(c1[i][d], root1, rad1)]]
                     mtx2 == [i \in 0..(n - 1) |-> [d \in 0..(w - 1) |->
                                Reduced(rot[i][d], norm2 * root1, rad1)]]
                     resid == [i \in 0..(n - 1) |-> [d \in 0..(w - 1) |->
                                c1[i][d] * norm2 - rot[i][d]]]
                     disparity == Frac(NormSq(resid), norm2 * norm2 * norm1)
                 IN Ok(<<mtx1, mtx2, disparity>>)

-----------------------------------------------------------------------------
(* align_latent_spaces, rotate.py:122-173 *)

\* mutant of DictGet: a missing key falls back to the first entry of the dict
DictGetOrFirst(d, k) ==
    IF k \in DOMAIN d THEN Ok(d[k])
    ELSE IF DOMAIN d # {} THEN Ok(d[CHOOSE x \in DOMAIN d : \A y \in DOMAIN d : x <= y])
    ELSE Err("KeyError")

\* d[k] on a dict: the value, or KeyError when k is not a key
DictGet(d, k) == IF k \in DOMAIN d THEN Ok(d[k]) ELSE Err("KeyError")

\* the exception a statement raises: that of the first of its sub-expressions,
\* in evaluation order, that raises; "none" when none does
FirstError(results) ==
    IF \E k \in 1..Len(results) : ~results[k].ok
    THEN LET k == CHOOSE x \in 1..Len(results) :
                    /\ ~results[x].ok
                    /\ \A y \in 1..(x - 1) : results[y].ok
         IN results[k].error
    ELSE "none"

\* np.vstack([person_coords[chain_id], item_coords[chain_id]]); the lookups are
\* evaluated left to right before the stack is built
StackChain(persons, items, chain_id) ==
    LET p == DictGet(persons, chain_id)
        q == DictGet(items, chain_id)
    IN IF ~p.ok THEN p ELSE IF ~q.ok THEN q ELSE VStack(p.val, q.val)

\* mutant of IsReference: no chain is skipped by the loop
IsReferenceNever(chain_id, ref) == FALSE

\* `if chain_id == ref_chain_id: continue`
IsReference(chain_id, ref) == chain_id = ref

\* where a matrix lives: a buffer and the row of the buffer its row 0 is
ArrayId(buf, first) == [buf |-> buf, first |-> first]

\* the dicts of matrices the call and its caller hold
ArrayDicts == {"person_coords", "item_coords", "aligned_person_coords",
               "aligned_item_coords"}

\* the buffers in use
BuffersOf(ids) == UNION { { ids[f][c].buf : c \in DOMAIN ids[f] } : f \in ArrayDicts }

\* a new array (the one procrustes returns): a buffer no matrix occupies yet
NewArray(ids) ==
    LET used == BuffersOf(ids)
    IN ArrayId(1 + Cardinality(used), 0)

\* arr[k:, :] and arr[:k, :] are views: the same buffer, from row k on
ViewFrom(arr, k) == ArrayId(arr.buf, arr.first + k)

\* {ref_chain_id: coords[ref_chain_id]}: the dict stores the very array object
SameArray(arr) == arr

\* mutant of AlignOnto: from the second aligned chain on, the target is the
\* stack of the chain aligned just before
AlignOntoPrevious(target, current, tie) ==
    Procrustes(IF printed = << >> THEN target
               ELSE StackChain(person_coords, item_coords, printed[Len(printed)][1]).val,
               current, tie)

\* procrustes(reference_matrix, current_matrix): every chain is fitted to the
\* reference matrix built before the loop
AlignOnto(target, current, tie) == Procrustes(target, current, tie)

\* rotate.py:145-152: the reference matrix and the two output dicts seeded with
\* the reference chain's own matrices
AlignStart ==
    /\ aln_pc = "start"
    /\ LET stack == StackChain(person_coords, item_coords, ref_chain_id)
           ref_person == DictGet(person_coords, ref_chain_id)
           ref_item == DictGet(item_coords, ref_chain_id)
           err == FirstError(<<stack, ref_person, ref_item>>)
       IN IF err # "none"
          THEN /\ aln_result' = Raise(err)
               /\ aln_pc' = "done"
               /\ UNCHANGED <<reference_matrix, aligned_person_coords,
                              aligned_item_coords, array_ids>>
          ELSE /\ reference_matrix' = stack.val
               /\ aligned_person_coords' = DictSet(EmptyDict, ref_chain_id, ref_person.val)
               /\ aligned_item_coords' = DictSet(EmptyDict, ref_chain_id, ref_item.val)
               /\ array_ids' =
                      [array_ids EXCEPT
                          !.aligned_person_coords =
                              DictSet(EmptyDict, ref_chain_id,
                                      SameArray(DictGet(array_ids.person_coords, ref_chain_id).val)),
                          !.aligned_item_coords =
                              DictSet(EmptyDict, ref_chain_id,
                                      SameArray(DictGet(array_ids.item_coords, ref_chain_id).val))]
               /\ aln_pc' = "loop"
               /\ UNCHANGED aln_result
    /\ UNCHANGED <<person_coords, item_coords, ref_chain_id, svd_sign, aln_todo, printed,
                   caller_wrote>>
    /\ UNCHANGED <<ext_vars, rw_vars, aux_vars>>

\* the loop reaches the reference chain: continue
AlignSkipReference ==
    /\ aln_pc = "loop"
    /\ aln_todo # << >>
    /\ IsReference(Head(aln_todo), ref_chain_id)
    /\ aln_todo' = Tail(aln_todo)
    /\ UNCHANGED <<person_coords, item_coords, ref_chain_id, svd_sign, aln_pc,
                   reference_matrix, aligned_person_coords, aligned_item_coords,
                   printed, aln_result, array_ids, caller_wrote>>
    /\ UNCHANGED <<ext_vars, rw_vars, aux_vars>>

\* rotate.py:158-171 for one chain: stack, procrustes, print, split
AlignChain ==
    /\ aln_pc = "loop"
    /\ aln_todo # << >>
    /\ ~IsReference(Head(aln_todo), ref_chain_id)
    /\ LET chain_id == Head(aln_todo)
           n_persons == Shape(person_coords[ref_chain_id])[1]
           current_matrix == StackChain(person_coords, item_coords, chain_id)
           fit == IF ~current_matrix.ok THEN current_matrix
                  ELSE AlignOnto(reference_matrix, current_matrix.val, svd_sign)
           err == FirstError(<<current_matrix, fit>>)
       IN IF err # "none"
          THEN /\ aln_result' = Raise(err)
               /\ aln_pc' = "done"
               /\ UNCHANGED <<aln_todo, aligned_person_coords, aligned_item_coords,
                              printed, array_ids>>
          ELSE /\ printed' = Append(printed, <<chain_id, ref_chain_id, fit.val[3]>>)
               /\ LET aligned_matrix == NewArray(array_ids)
                  IN array_ids' =
                         [array_ids EXCEPT
                             !.aligned_person_coords =
                                 DictSet(@, chain_id, ViewFrom(aligned_matrix, 0)),
                             !.aligned_item_coords =
                                 DictSet(@, chain_id, ViewFrom(aligned_matrix, n_persons))]
               /\ aligned_person_coords' =
                      DictSet(aligned_person_coords, chain_id,
                              RowsBefore(fit.val[2], n_persons))
               /\ aligned_item_coords' =
                      DictSet(aligned_item_coords, chain_id,
                              RowsFrom(fit.val[2], n_persons))
               /\ aln_todo' = Tail(aln_todo)
               /\ UNCHANGED <<aln_pc, aln_result>>
    /\ UNCHANGED <<person_coords, item_coords, ref_chain_id, svd_sign, reference_matrix,
                   caller_wrote>>
    /\ UNCHANGED <<ext_vars, rw_vars, aux_vars>>

\* return aligned_person_coords, aligned_item_coords
AlignReturn ==
    /\ aln_pc = "loop"
    /\ aln_todo = << >>
    /\ aln_result' = Return(<<aligned_person_coords, aligned_item_coords>>)
    /\ aln_pc' = "done"
    /\ UNCHANGED <<person_coords, item_coords, ref_chain_id, svd_sign, aln_todo,
                   reference_matrix, aligned_person_coords, aligned_item_coords, printed,
                   array_ids, caller_wrote>>
    /\ UNCHANGED <<ext_vars, rw_vars, aux_vars>>

-----------------------------------------------------------------------------
(* create_aligned_draws_dataframe, rotate.py:176-229 *)

\* the cell pandas leaves in the rows an enlarging assignment does not name
NaN == [nan |-> TRUE]

\* mutant of CopyFrame: no copy is made, the new name is bound to the same object
CopyFrameAlias(heap, id) == [heap |-> heap, id |-> id]

\* DataFrame.copy(): a new object holding the same columns and rows
CopyFrame(heap, id) ==
    LET new == 1 + Cardinality(DOMAIN heap)
    IN [heap |-> DictSet(heap, new, heap[id]), id |-> new]

\* mutant of ChainMask: the mask is True in every row
ChainMaskAll(frame, chain_id) == 1..Len(frame.rows)

\* frame["chain__"] == chain_id, as the set of row positions where it is True
ChainMask(frame, chain_id) ==
    { k \in 1..Len(frame.rows) : frame.rows[k][ChainCol] = chain_id }

\* frame.loc[mask, col] = value: the cells of col in the rows of mask are set;
\* a column that does not exist yet is added, NaN in the other rows
LocSet(frame, mask, col, value) ==
    LET cols == frame.columns \cup {col}
    IN Table(cols,
             [k \in 1..Len(frame.rows) |->
                 [c \in cols |->
                     IF c = col /\ k \in mask THEN value
                     ELSE IF c \in frame.columns THEN frame.rows[k][c]
                     ELSE NaN]])

\* mutant of ColumnPresent: the assignment is made whether or not the column exists
ColumnPresentAlways(frame, col) == TRUE

\* `if param_name in aligned_draws.columns`
ColumnPresent(frame, col) == col \in frame.columns

RECURSIVE OverwriteChain(_, _, _, _, _, _)
\* the loops over i and d for one chain (rotate.py:212-216 and 223-227), from
\* the k-th pair (i, d) of the row-major order on: the frame as written so far,
\* and the exception that ended the loops, if any
OverwriteChain(frame, mask, coords, pfx, dims, k) ==
    IF k >= Shape(coords)[1] * dims THEN [frame |-> frame, error |-> "none"]
    ELSE LET i == k \div dims
             d == k % dims
             param_name == ParamName(pfx, i, d)
         IN IF ColumnPresent(frame, param_name)
            THEN IF d < Shape(coords)[2]
                 THEN OverwriteChain(LocSet(frame, mask, param_name, coords[i][d]),
                                     mask, coords, pfx, dims, k + 1)
                 ELSE [frame |-> frame, error |-> "IndexError"]
            ELSE OverwriteChain(frame, mask, coords, pfx, dims, k + 1)

\* the chains of a dict in the order .items() yields them
ItemsOrder(d) ==
    LET RECURSIVE Sorted(_)
        Sorted(S) == IF S = {} THEN << >>
                     ELSE LET m == CHOOSE x \in S : \A y \in S : x <= y
                          IN <<m>> \o Sorted(S \ {m})
    IN Sorted(DOMAIN d)

RECURSIVE OverwriteFamily(_, _, _, _, _)
\* `for chain_id, coords in aligned_coords.items()` over the chains in todo
OverwriteFamily(frame, aligned_coords, todo, pfx, dims) ==
    IF todo = << >> THEN [frame |-> frame, error |-> "none"]
    ELSE LET chain_id == Head(todo)
             chain_mask == ChainMask(frame, chain_id)
             done == OverwriteChain(frame, chain_mask, aligned_coords[chain_id],
                                    pfx, dims, 0)
         IN IF done.error # "none" THEN done
            ELSE OverwriteFamily(done.frame, aligned_coords, Tail(todo), pfx, dims)

\* the whole call: copy, replace person coordinates, replace item coordinates,
\* return the copy
Rewrite ==
    /\ rw_result = Pending
    /\ LET copied == CopyFrame(frames, original_draws)
           aligned_draws == copied.id
           persons == OverwriteFamily(copied.heap[aligned_draws], rw_person,
                                      ItemsOrder(rw_person), "xi", rw_D)
           items == IF persons.error # "none" THEN persons
                    ELSE OverwriteFamily(persons.frame, rw_item,
                                         ItemsOrder(rw_item), "zt_centered", rw_D)
       IN /\ frames' = DictSet(copied.heap, aligned_draws, items.frame)
          /\ rw_result' = IF items.error # "none" THEN Raise(items.error)
                          ELSE Return(aligned_draws)
    /\ UNCHANGED <<original_draws, draws_before, rw_person, rw_item, rw_D>>
    /\ UNCHANGED <<ext_vars, aln_vars, aux_vars>>

-----------------------------------------------------------------------------
(* Inputs *)

Prefixes == {"xi", "zt_centered"}

\* the rows a table over the columns cols may hold
RowsOver(cols, vals) ==
    { [c \in cols |-> IF c = ChainCol THEN ch ELSE v[c]] :
        ch \in ChainIds, v \in [cols \ {ChainCol} -> vals] }

\* the tables over the columns cols with at most MaxDraws rows
TablesOver(cols, vals) ==
    { Table(cols, rows) :
        rows \in UNION { [1..k -> RowsOver(cols, vals)] : k \in 0..MaxDraws } }

\* column indexes of the draws tables given to the extractor
ExtractColumnSets ==
    { {ChainCol, <<"xi", 1, 1>>, <<"xi", 2, 1>>},
      {ChainCol, <<"xi", 1, 1>>, <<"xi", 1, 2>>},
      {ChainCol, <<"zt_centered", 1, 1>>, OtherCol} }

\* the variables of an operation that is not being called
IdleExtract ==
    /\ df_draws = Table({ChainCol}, << >>)
    /\ n_entities = 1 /\ D = 1 /\ prefix = "xi"
    /\ ext_todo = << >> /\ chain_means = EmptyDict
    /\ ext_result = Raise("not called")

IdleAlign ==
    /\ person_coords = EmptyDict /\ item_coords = EmptyDict
    /\ ref_chain_id = 1 /\ svd_sign = 1
    /\ aln_pc = "done" /\ aln_todo = << >>
    /\ reference_matrix = << >>
    /\ aligned_person_coords = EmptyDict /\ aligned_item_coords = EmptyDict
    /\ printed = << >>
    /\ aln_result = Raise("not called")
    /\ array_ids = [f \in ArrayDicts |-> EmptyDict]
    /\ caller_wrote = << >>

IdleRewrite ==
    /\ frames = << >> /\ original_draws = 0
    /\ draws_before = Table({ChainCol}, << >>)
    /\ rw_person = EmptyDict /\ rw_item = EmptyDict /\ rw_D = 1
    /\ rw_result = Raise("not called")

IdleCollapse ==
    /\ cs_frames = << >> /\ cs_df = 0
    /\ cs_before = Table({}, << >>)
    /\ cs_result = Raise("not called")

\* the variables of the operations outside rotate.py when none of them is called
IdlePipeline ==
    /\ stan_data = [n_persons |-> 1, n_items |-> 1, D |-> 1]
    /\ df_fit = Table({ChainCol}, << >>)
    /\ pipe_pc = "done"
    /\ person_chain_coords = EmptyDict
    /\ pipe_result = Raise("not called")

\* event.get("id") of an event without the attribute: None
NoId == [present |-> FALSE, text |-> << >>]

IdleParse ==
    /\ events = << >> /\ ev_pos = 1
    /\ items_data = << >>
    /\ current_item = NoId /\ item_start_time = 0
    /\ interactions = << >> /\ exhibit_interactions = << >>
    /\ parse_result = Raise("not called")

IdleAux == IdleCollapse /\ IdlePipeline /\ IdleParse

\* the n x w matrices with integer entries in 0..MaxCoord
CoordMatrices(n, w) ==
    [0..(n - 1) -> [0..(w - 1) -> { RealOfInt(x) : x \in 0..MaxCoord }]]

\* a matrix written row by row
MatrixOf(rows) ==
    [i \in 0..(Len(rows) - 1) |->
        [d \in 0..(Len(rows[i + 1]) - 1) |-> RealOfInt(rows[i + 1][d + 1])]]

\* one chain's coordinates: p its person matrix, q its item matrix
Config(p, q) == [p |-> p, q |-> q]

\* configurations of the reference chain: the unit square, an asymmetric one,
\* a collinear one, and one whose points coincide
UnitSquare == Config(MatrixOf(<< <<0, 0>>, <<1, 0>> >>), MatrixOf(<< <<0, 1>>, <<1, 1>> >>))
Skewed     == Config(MatrixOf(<< <<0, 0>>, <<1, 0>> >>), MatrixOf(<< <<0, 1>>, <<0, 0>> >>))
Collinear  == Config(MatrixOf(<< <<0, 0>>, <<1, 0>> >>), MatrixOf(<< <<1, 0>>, <<0, 0>> >>))
OnePoint   == Config(MatrixOf(<< <<1, 1>>, <<1, 1>> >>), MatrixOf(<< <<1, 1>>, <<1, 1>> >>))
\* a configuration of another shape: one person, two items
Uneven     == Config(MatrixOf(<< <<0, 0>> >>), MatrixOf(<< <<0, 1>>, <<1, 1>> >>))

\* a configuration of four points split otherwise: one person, three items
Lopsided   == Config(MatrixOf(<< <<0, 0>> >>),
                     MatrixOf(<< <<1, 0>>, <<0, 1>>, <<1, 1>> >>))

ReferenceConfigs == {UnitSquare, Skewed, Collinear, OnePoint}

\* every configuration of two persons and two items in two dimensions
AllConfigs == { Config(p, q) : p \in CoordMatrices(2, 2), q \in CoordMatrices(2, 2) }

\* the orders in which a dict with the keys S can hold them
KeyOrders(S) ==
    { f \in [1..Cardinality(S) -> S] : \A a, b \in 1..Cardinality(S) : f[a] = f[b] => a = b }

\* chain identifiers of the coordinate maps given to the aligner
AlignChainIds == {1, 3, 4}

\* a call align_latent_spaces(person_coords, item_coords, ref_chain_id) on two maps
\* over the same two chains
InitAlignPair ==
    /\ ref_chain_id \in {1, 3}
    /\ \E base \in ReferenceConfigs : \E cand \in AllConfigs :
          /\ person_coords = [c \in {1, 3} |-> IF c = ref_chain_id THEN base.p ELSE cand.p]
          /\ item_coords = [c \in {1, 3} |-> IF c = ref_chain_id THEN base.q ELSE cand.q]
    /\ svd_sign \in {1, -1}
    /\ aln_todo \in KeyOrders(DOMAIN person_coords)

\* a call on maps over any chain sets, with any reference chain identifier
InitAlignAny ==
    /\ ref_chain_id \in {1, 3}
    /\ \E cfg \in [AlignChainIds -> {UnitSquare, Skewed, Uneven, Lopsided}] :
       \E pd \in SUBSET AlignChainIds : \E qd \in SUBSET AlignChainIds :
          /\ person_coords = [c \in pd |-> cfg[c].p]
          /\ item_coords = [c \in qd |-> cfg[c].q]
    /\ svd_sign = 1
    /\ aln_todo \in KeyOrders(DOMAIN person_coords)

\* the matrices of the two dicts passed in are different arrays, each in a
\* buffer of its own
ArraysOf(persons, items) ==
    [f \in ArrayDicts |->
        IF f = "person_coords"
        THEN [c \in DOMAIN persons |->
                 ArrayId(Cardinality({ x \in DOMAIN persons : x <= c }), 0)]
        ELSE IF f = "item_coords"
        THEN [c \in DOMAIN items |->
                 ArrayId(Cardinality(DOMAIN persons)
                             + Cardinality({ x \in DOMAIN items : x <= c }), 0)]
        ELSE EmptyDict]

InputArrays == ArraysOf(person_coords, item_coords)

\* the state on entry to align_latent_spaces
AlignEntry ==
    /\ aln_pc = "start"
    /\ reference_matrix = << >>
    /\ aligned_person_coords = EmptyDict
    /\ aligned_item_coords = EmptyDict
    /\ printed = << >>
    /\ aln_result = Pending
    /\ array_ids = InputArrays
    /\ caller_wrote = << >>
    /\ IdleExtract /\ IdleRewrite /\ IdleAux

InitAlign ==
    /\ InitAlignPair \/ InitAlignAny
    /\ AlignEntry

NextAlign == AlignStart \/ AlignSkipReference \/ AlignChain \/ AlignReturn

SpecAlign == InitAlign /\ [][NextAlign]_vars

\* the value the caller assigns to an element of a matrix after the call
WrittenValue == RealOfInt(7)

\* the dict of matrices of the given name
DictNamed(f) ==
    IF f = "person_coords" THEN person_coords
    ELSE IF f = "item_coords" THEN item_coords
    ELSE IF f = "aligned_person_coords" THEN aligned_person_coords
    ELSE aligned_item_coords

\* the dict f after buffer element (buf, row, col) was set to v: every matrix
\* that occupies the element shows the new value
AfterWrite(f, buf, row, col, v) ==
    LET dict == DictNamed(f)
    IN [c \in DOMAIN dict |-> [i \in DOMAIN dict[c] |-> [d \in DOMAIN dict[c][i] |->
           IF /\ array_ids[f][c].buf = buf
              /\ array_ids[f][c].first + i = row
              /\ d = col
           THEN v ELSE dict[c][i][d]]]]

\* after the call has returned, its caller assigns in place to one element of a
\* matrix of an input dict or of a returned dict: m[i, d] = WrittenValue
CallerWrite ==
    /\ aln_result.kind = "return"
    /\ caller_wrote = << >>
    /\ \E f \in ArrayDicts : \E c \in DOMAIN DictNamed(f) :
       \E i \in DOMAIN DictNamed(f)[c] : \E d \in DOMAIN DictNamed(f)[c][i] :
          LET arr == array_ids[f][c]
              row == arr.first + i
          IN /\ person_coords' = AfterWrite("person_coords", arr.buf, row, d, WrittenValue)
             /\ item_coords' = AfterWrite("item_coords", arr.buf, row, d, WrittenValue)
             /\ aligned_person_coords' =
                    AfterWrite("aligned_person_coords", arr.buf, row, d, WrittenValue)
             /\ aligned_item_coords' =
                    AfterWrite("aligned_item_coords", arr.buf, row, d, WrittenValue)
             /\ caller_wrote' = <<f, c, i, d>>
    /\ aln_result' = Return(<<aligned_person_coords', aligned_item_coords'>>)
    /\ UNCHANGED <<ref_chain_id, svd_sign, aln_pc, aln_todo, reference_matrix, printed,
                   array_ids>>
    /\ UNCHANGED <<ext_vars, rw_vars, aux_vars>>

\* a call on maps over any chain sets, followed by the caller's assignment
InitAlignCaller == InitAlignAny /\ AlignEntry

NextAlignCaller == NextAlign \/ CallerWrite

SpecAlignCaller == InitAlignCaller /\ [][NextAlignCaller]_vars

\* column indexes of the draws tables given to the rewriter
RewriteColumnSets ==
    { {ChainCol, <<"xi", 1, 1>>, <<"xi", 1, 3>>},
      {ChainCol, <<"xi", 1, 2>>, OtherCol},
      {ChainCol, <<"xi", 1, 1>>, <<"zt_centered", 1, 1>>},
      {ChainCol, <<"xi", 2, 1>>, <<"zt_centered", 1, 2>>} }

\* sampled values in the tables given to the rewriter
SampledValues == {0, 1}

\* entry [i, d] of the aligned matrix of chain c in the family pfx: every entry
\* of every matrix is a different number, and none is a sampled value
AlignedEntry(pfx, c, i, d) == (IF pfx = "xi" THEN 100 ELSE 200) + 10 * c + 3 * i + d

\* an aligned coordinate map over the chains cs, its matrices n x w
AlignedMap(pfx, cs, n, w) ==
    [c \in cs |-> [i \in 0..(n - 1) |-> [d \in 0..(w - 1) |-> AlignedEntry(pfx, c, i, d)]]]

\* a call create_aligned_draws_dataframe(original_draws, aligned_person_coords,
\* aligned_item_coords, D); the caller's table is object 1
InitRewrite ==
    /\ original_draws = 1
    /\ \E cols \in RewriteColumnSets : draws_before \in TablesOver(cols, SampledValues)
    /\ frames = DictSet(EmptyDict, original_draws, draws_before)
    /\ \E w \in 1..3 :
          /\ \E cs \in {{1}, {1, 3}} : \E n \in 1..2 : rw_person = AlignedMap("xi", cs, n, w)
          /\ \E cs \in {{1}, {1, 3}} : rw_item = AlignedMap("zt_centered", cs, 1, w)
    /\ rw_D \in 1..2
    /\ rw_result = Pending
    /\ IdleExtract /\ IdleAlign /\ IdleAux

NextRewrite == Rewrite

SpecRewrite == InitRewrite /\ [][NextRewrite]_vars

\* a call extract_latent_coordinates(df_draws, n_entities, D, prefix), about to
\* enter the loop over df_draws["chain__"].unique() with chain_means = {}
InitExtract ==
    /\ \E cols \in ExtractColumnSets : df_draws \in TablesOver(cols, 0..MaxVal)
    /\ n_entities \in 1..2
    /\ D \in 1..2
    /\ prefix \in Prefixes
    /\ ext_todo = Unique(Column(df_draws, ChainCol))
    /\ chain_means = EmptyDict
    /\ ext_result = Pending
    /\ IdleAlign /\ IdleRewrite /\ IdleAux

NextExtract == ExtractChain \/ ExtractRaise \/ ExtractReturn

SpecExtract == InitExtract /\ [][NextExtract]_vars

-----------------------------------------------------------------------------
(* Properties of extract_latent_coordinates *)

\* positions of the rows of frame whose chain is c
RowsOfChain(frame, c) == { k \in 1..Len(frame.rows) : frame.rows[k][ChainCol] = c }

RECURSIVE SumOver(_, _, _)
\* sum of column col of frame over the row positions in S
SumOver(frame, col, S) ==
    IF S = {} THEN 0
    ELSE LET k == CHOOSE x \in S : TRUE
         IN frame.rows[k][col] + SumOver(frame, col, S \ {k})

\* some required column prefix[i,d], i in 1..n_entities, d in 1..D, is absent
MissingRequired ==
    \E i \in 1..n_entities : \E d \in 1..D : <<prefix, i, d>> \notin df_draws.columns

C10_AsStated ==
    MissingRequired => (ext_result = Pending \/ ext_result.kind = "raise")

\* C10 amended: when a required column is absent and the table has at least one
\* draw, the call raises in the first iteration: no chain is ever stored in
\* chain_means and no map is returned.
C10_MissingColumnRaises ==
    (MissingRequired /\ Len(df_draws.rows) > 0) =>
        /\ chain_means = EmptyDict
        /\ ext_result = Pending \/ ext_result = Raise("KeyError")
        /\ ext_todo # << >>

\* C10 witness: a table with draws of two chains and a missing column; the call
\* has raised
C10_Witness ==
    /\ MissingRequired
    /\ Cardinality({ df_draws.rows[k][ChainCol] : k \in 1..Len(df_draws.rows) }) = 2
    /\ ext_result = Raise("KeyError")

-----------------------------------------------------------------------------
(* Properties of align_latent_spaces *)

\* the tolerance of a comparison "within floating-point tolerance".  It is far
\* coarser than the 1e-6 of the end-to-end scenario: values further apart than
\* this are further apart than 1e-6.
Tolerance == [num |-> 1, den |-> 10]

\* c < k * sqrt(t), for integers c, k and t > 0
LtSqrt(c, k, t) ==
    IF k >= 0 THEN c < 0 \/ c * c < k * k * t
    ELSE c < 0 /\ c * c > k * k * t

\* the real number a is within Tolerance of the integer-valued real number b
Close(a, b) ==
    LET x == IntOfReal(b)
        lo == (x * Tolerance.den - Tolerance.num) * a.den
        hi == (x * Tolerance.den + Tolerance.num) * a.den
        c == a.num * Tolerance.den
    IN /\ ~LtSqrt(c, lo, a.rad)
       /\ ~LtSqrt(-c, -hi, a.rad)

\* every entry of the matrix a is within Tolerance of that of the matrix b
CloseMatrix(a, b) ==
    /\ Shape(a) = Shape(b)
    /\ \A i \in DOMAIN a : \A d \in DOMAIN a[i] : Close(a[i][d], b[i][d])

\* the fraction f is within Tolerance of 0
NearZero(f) == Abs(f.num) * Tolerance.den <= f.den * Tolerance.num

\* the rotations and reflections of the plane that map the axes to the axes
AxisRotations ==
    { q \in [0..1 -> [0..1 -> {-1, 0, 1}]] :
        /\ q[0][0] * q[0][0] + q[0][1] * q[0][1] = 1
        /\ q[1][0] * q[1][0] + q[1][1] * q[1][1] = 1
        /\ q[0][0] * q[1][0] + q[0][1] * q[1][1] = 0 }

\* the configuration y is the configuration x with a rotation or reflection q
\* applied about x's centroid: y - centroid = (x - centroid) q
RotatedCopy(y, x) ==
    /\ Shape(y) = Shape(x)
    /\ Shape(x)[2] = 2
    /\ \E q \in AxisRotations :
          LET n == Shape(x)[1]
              cx == Centred(x)
              s == [d \in 0..1 |-> SumTo([i \in 0..(n - 1) |-> IntOfReal(x[i][d])], n)]
          IN \A i \in 0..(n - 1) : \A d \in 0..1 :
                n * IntOfReal(y[i][d]) - s[d] = cx[i][0] * q[0][d] + cx[i][1] * q[1][d]

\* the stacked person and item matrices of chain c of the input maps
InputStack(c) == VStack(person_coords[c], item_coords[c]).val

\* the disparities printed for chain c
PrintedFor(c) == { printed[k][3] : k \in { j \in 1..Len(printed) : printed[j][1] = c } }

\* C2: the two output maps hold, at the reference chain, exactly the input person
\* and item matrices of the reference chain.
C2_ReferenceIdentity ==
    /\ ref_chain_id \in DOMAIN aligned_person_coords =>
          aligned_person_coords[ref_chain_id] = person_coords[ref_chain_id]
    /\ ref_chain_id \in DOMAIN aligned_item_coords =>
          aligned_item_coords[ref_chain_id] = item_coords[ref_chain_id]
    /\ aln_result.kind = "return" =>
          /\ aln_result.value[1][ref_chain_id] = person_coords[ref_chain_id]
          /\ aln_result.value[2][ref_chain_id] = item_coords[ref_chain_id]

\* C2 witness: the call returned after aligning another chain onto the reference
\* chain, which the loop visited last
C2_Witness ==
    /\ aln_result.kind = "return"
    /\ Len(printed) = 1
    /\ Cardinality(DOMAIN person_coords) = 2
    /\ person_coords[ref_chain_id] # person_coords[printed[1][1]]

\* C3 as stated: a chain whose stacked configuration is a rotated or reflected
\* copy of the reference chain's comes back matching the reference chain's
\* original person and item matrices within tolerance, with disparity about 0.
C3_AsStated ==
    aln_result.kind = "return" =>
        \A c \in (DOMAIN person_coords) \ {ref_chain_id} :
            RotatedCopy(InputStack(c), InputStack(ref_chain_id)) =>
                /\ CloseMatrix(aln_result.value[1][c], person_coords[ref_chain_id])
                /\ CloseMatrix(aln_result.value[2][c], item_coords[ref_chain_id])
                /\ \A disparity \in PrintedFor(c) : NearZero(disparity)

\* C4 as stated: when every chain's input matrices equal the reference chain's,
\* every chain's matrices come back unchanged within tolerance, with disparity 0.
C4_AsStated ==
    (/\ aln_result.kind = "return"
     /\ \A c \in DOMAIN person_coords :
           /\ person_coords[c] = person_coords[ref_chain_id]
           /\ item_coords[c] = item_coords[ref_chain_id]) =>
        /\ \A c \in DOMAIN person_coords :
              /\ CloseMatrix(aln_result.value[1][c], person_coords[c])
              /\ CloseMatrix(aln_result.value[2][c], item_coords[c])
        /\ \A k \in 1..Len(printed) : printed[k][3] = Frac(0, 1)

\* C8 as stated: when the two input maps cover different chain sets the call
\* does not return output maps.
C8_AsStated ==
    DOMAIN person_coords # DOMAIN item_coords => aln_result.kind # "return"

\* C9: when the reference chain is missing from the person map, the item map or
\* both, the call raises KeyError before the loop starts: no output dict is ever
\* created, no chain is aligned, and nothing is returned.
C9_MissingReferenceRaises ==
    (ref_chain_id \notin DOMAIN person_coords \/ ref_chain_id \notin DOMAIN item_coords) =>
        /\ aln_pc # "loop"
        /\ aligned_person_coords = EmptyDict /\ aligned_item_coords = EmptyDict
        /\ printed = << >>
        /\ aln_result = Pending \/ aln_result = Raise("KeyError")
        /\ aln_pc = "done" => aln_result = Raise("KeyError")

\* C9 witness: the call raised KeyError on maps that both hold other chains, the
\* reference chain missing from the item map only
C9_Witness ==
    /\ aln_result = Raise("KeyError")
    /\ ref_chain_id \in DOMAIN person_coords
    /\ ref_chain_id \notin DOMAIN item_coords
    /\ DOMAIN item_coords # {}
    /\ aln_pc = "done"

-----------------------------------------------------------------------------
(* Properties of create_aligned_draws_dataframe *)

\* col is a coordinate column: xi[i,d] or zt_centered[i,d]
IsCoordColumn(col) == col[1] \in Prefixes

\* in the table out, every row of a chain of the map coords holds, in every
\* column pfx[i,d] of the table that names an entry of the chain's matrix, that entry
Overwritten(out, coords, pfx) ==
    \A c \in DOMAIN coords : \A k \in 1..Len(out.rows) :
        out.rows[k][ChainCol] = c =>
            \A i \in 1..Shape(coords[c])[1] : \A d \in 1..Shape(coords[c])[2] :
                <<pfx, i, d>> \in out.columns =>
                    out.rows[k][<<pfx, i, d>>] = coords[c][i - 1][d - 1]

\* C5 as stated: in the returned table every row of a chain c of the aligned maps
\* holds aligned_coords[c][i-1, d-1] in every coordinate column prefix[i,d] that
\* is present, for the person family and the item family alike.
C5_AsStated ==
    rw_result.kind = "return" =>
        /\ Overwritten(frames[rw_result.value], rw_person, "xi")
        /\ Overwritten(frames[rw_result.value], rw_item, "zt_centered")

\* C6: the returned table has the rows (count and order) and the column set of
\* the input, also when the aligned maps name columns the table lacks, and every
\* cell of a column that is not a coordinate column equals the input cell.
C6_PassThrough ==
    rw_result.kind = "return" =>
        LET out == frames[rw_result.value]
        IN /\ out.columns = draws_before.columns
           /\ Len(out.rows) = Len(draws_before.rows)
           /\ \A k \in 1..Len(out.rows) : \A c \in out.columns :
                 ~IsCoordColumn(c) => out.rows[k][c] = draws_before.rows[k][c]

\* C6 witness: a returned table of two draws with a non-coordinate parameter,
\* where the person map names a column the table lacks and a cell was overwritten
C6_Witness ==
    /\ rw_result.kind = "return"
    /\ Len(draws_before.rows) = 2
    /\ OtherCol \in draws_before.columns
    /\ \E c \in DOMAIN rw_person : \E i \in 1..Shape(rw_person[c])[1] :
          \E d \in 1..rw_D : <<"xi", i, d>> \notin draws_before.columns
    /\ frames[rw_result.value] # draws_before

\* C7: the caller's table is never changed: whatever the call does, every cell of
\* original_draws keeps the value it had when the call was made, and the table
\* returned is another object.
C7_CopyOnWrite ==
    /\ frames[original_draws] = draws_before
    /\ rw_result.kind = "return" => rw_result.value # original_draws

\* C7 witness: the call returned a table that differs from the caller's table
C7_Witness ==
    /\ rw_result.kind = "return"
    /\ frames[rw_result.value] # frames[original_draws]
    /\ Len(draws_before.rows) = 2

-----------------------------------------------------------------------------
(* Further properties of align_latent_spaces *)

\* C11 as stated: on every successful call the key set of the returned person
\* map is the key set of person_coords and the key set of the returned item map
\* is the key set of item_coords.
C11_AsStated ==
    aln_result.kind = "return" =>
        /\ DOMAIN aln_result.value[1] = DOMAIN person_coords
        /\ DOMAIN aln_result.value[2] = DOMAIN item_coords

\* every chain's person matrix has as many rows as the reference chain's
SameEntityCount ==
    \A c \in DOMAIN person_coords :
        Shape(person_coords[c])[1] = Shape(person_coords[ref_chain_id])[1]

\* the aligned stack of chain c: the second output of procrustes on the
\* reference stack and the stack of chain c
AlignedStack(c) == Procrustes(InputStack(ref_chain_id), InputStack(c), svd_sign).val[2]

\* C12 as stated: for every chain of a successful call the returned person and
\* item matrices have the shapes of that chain's input person and item matrices.
C12_AsStated ==
    aln_result.kind = "return" =>
        \A c \in DOMAIN aln_result.value[1] :
            /\ Shape(aln_result.value[1][c]) = Shape(person_coords[c])
            /\ Shape(aln_result.value[2][c]) = Shape(item_coords[c])

\* C12 amended: when every chain has the reference chain's number of persons,
\* the returned matrices of every chain have the shapes of its input matrices,
\* and for a chain that was aligned the person output on top of the item output
\* is the chain's aligned stack, row for row: the first n_persons rows are the
\* person output, the remaining rows the item output, and no row is lost.
C12_ShapePreserved ==
    (aln_result.kind = "return" /\ SameEntityCount) =>
        \A c \in DOMAIN aln_result.value[1] :
            /\ Shape(aln_result.value[1][c]) = Shape(person_coords[c])
            /\ Shape(aln_result.value[2][c]) = Shape(item_coords[c])
            /\ Shape(aln_result.value[1][c])[1] + Shape(aln_result.value[2][c])[1]
                   = Shape(InputStack(c))[1]
            /\ c # ref_chain_id =>
                   VStack(aln_result.value[1][c], aln_result.value[2][c])
                       = Ok(AlignedStack(c))

\* C12 witness: a successful call that aligned a chain of two persons and two
\* items whose matrices differ from the reference chain's
C12_Witness ==
    /\ aln_result.kind = "return"
    /\ SameEntityCount
    /\ \E c \in (DOMAIN aln_result.value[1]) \ {ref_chain_id} :
          /\ Shape(aln_result.value[1][c]) = <<2, 2>>
          /\ person_coords[c] # person_coords[ref_chain_id]
          /\ item_coords[c] # item_coords[ref_chain_id]

\* C13: whatever the order in which the loop visits the chains and whatever the
\* other chains hold, the entries of a chain that is not the reference chain are,
\* from the moment it is aligned, the two blocks of the Procrustes fit of its own
\* stack to the reference chain's stack, and the disparity printed for it is
\* that fit's; the returned maps hold these entries.
C13_OrderIndependent ==
    /\ \A c \in (DOMAIN aligned_person_coords) \ {ref_chain_id} :
          LET n_persons == Shape(person_coords[ref_chain_id])[1]
              fit == Procrustes(InputStack(ref_chain_id), InputStack(c), svd_sign).val
          IN /\ aligned_person_coords[c] = RowsBefore(fit[2], n_persons)
             /\ c \in DOMAIN aligned_item_coords
             /\ aligned_item_coords[c] = RowsFrom(fit[2], n_persons)
             /\ PrintedFor(c) = {fit[3]}
    /\ aln_result.kind = "return" =>
          /\ aln_result.value = <<aligned_person_coords, aligned_item_coords>>
          /\ DOMAIN aligned_person_coords = DOMAIN person_coords

\* C13 witness: a successful call on three chains that aligned two chains of
\* different coordinates, the one with the larger identifier first
C13_Witness ==
    /\ aln_result.kind = "return"
    /\ Len(printed) = 2
    /\ printed[1][1] > printed[2][1]
    /\ InputStack(printed[1][1]) # InputStack(printed[2][1])
    /\ InputStack(printed[1][1]) # InputStack(ref_chain_id)

\* C14 as stated: the reference chain's entries of the returned maps are
\* independent of the input matrices: an assignment to an element of a returned
\* reference matrix leaves both input maps as they were, and an assignment to an
\* element of an input reference matrix leaves the returned maps as they were.
C14_AsStated ==
    [][(caller_wrote = << >> /\ caller_wrote' # << >> /\ caller_wrote'[2] = ref_chain_id) =>
          /\ caller_wrote'[1] \in {"aligned_person_coords", "aligned_item_coords"} =>
                 (person_coords' = person_coords /\ item_coords' = item_coords)
          /\ caller_wrote'[1] \in {"person_coords", "item_coords"} =>
                 aln_result' = aln_result]_vars

-----------------------------------------------------------------------------
(* collapse_scores_equal_freq, data_import.py:340-373 *)

\* most responses (rows) in a score table
MaxResponses == 5
\* scores in a score table are 0..MaxScore
MaxScore == 3

\* the default column names item_col and score_col
ItemCol == <<"item_id">>
ScoreCol == <<"score">>

\* Series.nunique(): the number of distinct values
NUnique(s) == Cardinality({ s[k] : k \in 1..Len(s) })

RECURSIVE SortedSeq(_)
\* the values of s in ascending order
SortedSeq(s) ==
    IF s = << >> THEN << >>
    ELSE LET k == CHOOSE x \in 1..Len(s) : \A y \in 1..Len(s) : s[x] <= s[y]
         IN <<s[k]>> \o SortedSeq([j \in 1..(Len(s) - 1) |-> IF j < k THEN s[j] ELSE s[j + 1]])

\* q times the quantiles of s at 0, 1/q, ..., 1, linearly interpolated between
\* the order statistics: position (n - 1) * k / q of the sorted values
QuantileEdges(s, q) ==
    LET x == SortedSeq(s)
        n == Len(s)
    IN [j \in 1..(q + 1) |->
           LET h == (n - 1) * (j - 1)
               lo == h \div q
               rem == h % q
           IN IF rem = 0 THEN q * x[lo + 1]
              ELSE q * x[lo + 1] + rem * (x[lo + 2] - x[lo + 1])]

\* pd.qcut(s, q, labels=False, duplicates="drop"): the bin edges are the
\* quantiles without repeated values; the code of a value is the position of the
\* right-closed bin it lies in, the lowest edge included in the first bin, NaN
\* for a value in no bin.  ValueError is raised for repeated edges only when
\* duplicates="raise".
QCut(s, q) ==
    LET bins == Unique(QuantileEdges(s, q))
        ids(v) == IF v = bins[1] THEN 1
                  ELSE Cardinality({ j \in 1..Len(bins) : bins[j] < v })
    IN Ok([k \in 1..Len(s) |->
              IF ids(q * s[k]) = 0 \/ ids(q * s[k]) = Len(bins) THEN NaN
              ELSE ids(q * s[k]) - 1])

\* mutant of AlreadyCollapsed: every group is kept as it is
AlreadyCollapsedAlways(s) == TRUE

\* `if s.nunique() <= 3`
AlreadyCollapsed(s) == NUnique(s) <= 3

\* bin_scores(s), data_import.py:363-370
bin_scores(s) ==
    IF AlreadyCollapsed(s) THEN s
    ELSE LET binned == QCut(s, 3)
         IN IF binned.ok THEN binned.val ELSE s

\* df.groupby(item_col)[score_col].transform(bin_scores): for every row the
\* value bin_scores gives it within the rows of its item, in row order
GroupTransform(frame, item_col, score_col) ==
    [k \in 1..Len(frame.rows) |->
        LET members == { j \in 1..Len(frame.rows) :
                            frame.rows[j][item_col] = frame.rows[k][item_col] }
            group == SelectSeq(frame.rows,
                               LAMBDA r : r[item_col] = frame.rows[k][item_col])
            scores == [j \in 1..Len(group) |-> group[j][score_col]]
            pos == Cardinality({ j \in members : j <= k })
        IN bin_scores(scores)[pos]]

\* df[score_col] = values: the column is replaced row by row
SetColumn(frame, col, values) ==
    Table(frame.columns \cup {col},
          [k \in 1..Len(frame.rows) |->
              [c \in frame.columns \cup {col} |->
                  IF c = col THEN values[k] ELSE frame.rows[k][c]]])

\* the whole call: copy, transform the score column of the copy, return the copy
CollapseScores ==
    /\ cs_result = Pending
    /\ LET copied == CopyFrame(cs_frames, cs_df)
           df == copied.id
           binned == GroupTransform(copied.heap[df], ItemCol, ScoreCol)
       IN /\ cs_frames' = DictSet(copied.heap, df, SetColumn(copied.heap[df], ScoreCol, binned))
          /\ cs_result' = Return(df)
    /\ UNCHANGED <<cs_df, cs_before>>
    /\ UNCHANGED <<ext_vars, aln_vars, rw_vars, pipe_vars, parse_vars>>

\* item identifiers in a score table
ScoredItems == {1, 2}

\* the score tables of at most MaxResponses responses
ScoreTables ==
    { Table({ItemCol, ScoreCol}, rows) :
        rows \in UNION { [1..k -> { [c \in {ItemCol, ScoreCol} |->
                                        IF c = ItemCol THEN it ELSE sc] :
                                    it \in ScoredItems, sc \in 0..MaxScore }] :
                         k \in 0..MaxResponses } }

\* a call collapse_scores_equal_freq(df); the caller's table is object 1
InitCollapse ==
    /\ cs_df = 1
    /\ cs_before \in ScoreTables
    /\ cs_frames = DictSet(EmptyDict, cs_df, cs_before)
    /\ cs_result = Pending
    /\ IdleExtract /\ IdleAlign /\ IdleRewrite /\ IdlePipeline /\ IdleParse

NextCollapse == CollapseScores

SpecCollapse == InitCollapse /\ [][NextCollapse]_vars

\* the distinct scores the table holds for the item
ScoresOf(frame, item) ==
    { frame.rows[k][ScoreCol] : k \in { j \in 1..Len(frame.rows) :
                                          frame.rows[j][ItemCol] = item } }

\* C15: in the returned table every item has at most 3 distinct score values,
\* the rows and their items are those of the input, and the caller's table is
\* left as it was, the returned table being another object.
C15_AtMostThreeCategories ==
    /\ cs_result.kind = "return" =>
          LET out == cs_frames[cs_result.value]
          IN /\ \A item \in ScoredItems : Cardinality(ScoresOf(out, item)) <= 3
             /\ Len(out.rows) = Len(cs_before.rows)
             /\ \A k \in 1..Len(out.rows) :
                   out.rows[k][ItemCol] = cs_before.rows[k][ItemCol]
             /\ cs_result.value # cs_df
    /\ cs_frames[cs_df] = cs_before

\* C15 witness: a returned table in which an item that had four distinct scores
\* has three, next to an item whose scores were kept
C15_Witness ==
    /\ cs_result.kind = "return"
    /\ \E item \in ScoredItems :
          /\ Cardinality(ScoresOf(cs_before, item)) = 4
          /\ Cardinality(ScoresOf(cs_frames[cs_result.value], item)) = 3
    /\ \E item \in ScoredItems :
          /\ Cardinality(ScoresOf(cs_before, item)) = 1
          /\ ScoresOf(cs_frames[cs_result.value], item) = ScoresOf(cs_before, item)

-----------------------------------------------------------------------------
(* run_stan_model, run_ls_models.py:71-94: the alignment of the fitted draws *)

\* [var for var in df_fit.columns if "xi[" in var], and the same for "zt_centered["
VarsLike(frame, pfx) == { c \in frame.columns : c[1] = pfx }

\* frame[cols]: the table restricted to the columns cols
Project(frame, cols) ==
    Table(cols, [k \in 1..Len(frame.rows) |-> [c \in cols |-> frame.rows[k][c]]])

\* the matrices of a chain coordinate map, their entries (means, as fractions)
\* written as real numbers
CoordsAsReal(coords) ==
    [c \in DOMAIN coords |-> [i \in DOMAIN coords[c] |-> [d \in DOMAIN coords[c][i] |->
        Real(coords[c][i][d].num, coords[c][i][d].den, 1)]]]

\* the table with the cells of its parameter columns written as real numbers
CellsAsReal(frame) ==
    Table(frame.columns,
          [k \in 1..Len(frame.rows) |-> [c \in frame.columns |->
              IF c = ChainCol THEN frame.rows[k][c] ELSE RealOfInt(frame.rows[k][c])]])

\* the D the rewriter is called with: the literal of `D=2`
RewriterD == 2

\* ref_chain_id is not passed: the default of align_latent_spaces
DefaultRefChain == 1

\* the arguments of a call extract_latent_coordinates(draws, n, stan_data["D"], pfx)
CallExtract(draws, n, pfx) ==
    /\ df_draws' = draws
    /\ n_entities' = n
    /\ D' = stan_data.D
    /\ prefix' = pfx
    /\ ext_todo' = Unique(Column(draws, ChainCol))
    /\ chain_means' = EmptyDict
    /\ ext_result' = Pending

\* person_draws = df_fit[["chain__"] + person_vars]; extract_latent_coordinates(
\* person_draws, stan_data["n_persons"], stan_data["D"], "xi") is called
PipeExtractPersons ==
    /\ pipe_pc = "extract_persons"
    /\ CallExtract(Project(df_fit, {ChainCol} \cup VarsLike(df_fit, "xi")),
                   stan_data.n_persons, "xi")
    /\ pipe_pc' = "persons"
    /\ UNCHANGED <<stan_data, df_fit, person_chain_coords, pipe_result>>
    /\ UNCHANGED <<aln_vars, rw_vars, cs_vars, parse_vars>>

\* person_chain_coords is bound; extract_latent_coordinates(item_draws,
\* stan_data["n_items"], stan_data["D"], "zt_centered") is called
PipeExtractItems ==
    /\ pipe_pc = "persons"
    /\ ext_result.kind = "return"
    /\ person_chain_coords' = ext_result.value
    /\ CallExtract(Project(df_fit, {ChainCol} \cup VarsLike(df_fit, "zt_centered")),
                   stan_data.n_items, "zt_centered")
    /\ pipe_pc' = "items"
    /\ UNCHANGED <<stan_data, df_fit, pipe_result>>
    /\ UNCHANGED <<aln_vars, rw_vars, cs_vars, parse_vars>>

\* item_chain_coords is bound; align_latent_spaces(person_chain_coords,
\* item_chain_coords) is called, the reference chain left to its default
PipeAlign ==
    /\ pipe_pc = "items"
    /\ ext_result.kind = "return"
    /\ person_coords' = CoordsAsReal(person_chain_coords)
    /\ item_coords' = CoordsAsReal(ext_result.value)
    /\ ref_chain_id' = DefaultRefChain
    /\ svd_sign' \in {1, -1}
    /\ aln_pc' = "start"
    /\ aln_todo' = Unique(Column(df_fit, ChainCol))
    /\ reference_matrix' = << >>
    /\ aligned_person_coords' = EmptyDict
    /\ aligned_item_coords' = EmptyDict
    /\ printed' = << >>
    /\ aln_result' = Pending
    /\ array_ids' = ArraysOf(person_coords', item_coords')
    /\ caller_wrote' = << >>
    /\ pipe_pc' = "align"
    /\ UNCHANGED <<stan_data, df_fit, person_chain_coords, pipe_result>>
    /\ UNCHANGED <<ext_vars, rw_vars, cs_vars, parse_vars>>

\* create_aligned_draws_dataframe(df_fit, aligned_person_coords,
\* aligned_item_coords, D=2) is called
PipeRewrite ==
    /\ pipe_pc = "align"
    /\ aln_result.kind = "return"
    /\ original_draws' = 1
    /\ draws_before' = CellsAsReal(df_fit)
    /\ frames' = DictSet(EmptyDict, 1, CellsAsReal(df_fit))
    /\ rw_person' = aln_result.value[1]
    /\ rw_item' = aln_result.value[2]
    /\ rw_D' = RewriterD
    /\ rw_result' = Pending
    /\ pipe_pc' = "rewrite"
    /\ UNCHANGED <<stan_data, df_fit, person_chain_coords, pipe_result>>
    /\ UNCHANGED <<ext_vars, aln_vars, cs_vars, parse_vars>>

\* df_fit_aligned is bound and written out
PipeReturn ==
    /\ pipe_pc = "rewrite"
    /\ rw_result.kind = "return"
    /\ pipe_result' = Return(rw_result.value)
    /\ pipe_pc' = "done"
    /\ UNCHANGED <<stan_data, df_fit, person_chain_coords>>
    /\ UNCHANGED <<ext_vars, aln_vars, rw_vars, cs_vars, parse_vars>>

\* an exception of a stage is not caught: it ends run_stan_model
PipeRaise ==
    /\ \/ pipe_pc \in {"persons", "items"} /\ ext_result.kind = "raise"
          /\ pipe_result' = Raise(ext_result.error)
       \/ pipe_pc = "align" /\ aln_result.kind = "raise"
          /\ pipe_result' = Raise(aln_result.error)
       \/ pipe_pc = "rewrite" /\ rw_result.kind = "raise"
          /\ pipe_result' = Raise(rw_result.error)
    /\ pipe_pc' = "done"
    /\ UNCHANGED <<stan_data, df_fit, person_chain_coords>>
    /\ UNCHANGED <<ext_vars, aln_vars, rw_vars, cs_vars, parse_vars>>

\* the points a sampled position takes in dims dimensions: the origin and the
\* unit points of the axes
SampledPoints(dims) == { [d \in 1..dims |-> IF d = j THEN 1 ELSE 0] : j \in 0..dims }

\* columns of the draws of a model of one person and one item in dims dimensions
FitColumns(dims) ==
    {ChainCol, OtherCol} \cup { <<pfx, 1, d>> : pfx \in Prefixes, d \in 1..dims }

\* the draws such a model can give: a chain, a position of the person and one of
\* the item
FitRows(dims) ==
    { [c \in FitColumns(dims) |->
          IF c = ChainCol THEN ch
          ELSE IF c = OtherCol THEN 0
          ELSE IF c[1] = "xi" THEN p[c[3]] ELSE q[c[3]]] :
        ch \in ChainIds, p \in SampledPoints(dims), q \in SampledPoints(dims) }

\* the chains of a table
ChainsOf(frame) == { frame.rows[k][ChainCol] : k \in 1..Len(frame.rows) }

\* every chain mean of the table is an integer
IntegerMeans(frame) ==
    \A c \in ChainsOf(frame) : \A col \in frame.columns \ {ChainCol} :
        SumOver(frame, col, RowsOfChain(frame, c)) % Cardinality(RowsOfChain(frame, c)) = 0

\* the draws tables of the runs modelled: the Procrustes fit is modelled for
\* integer coordinates in one or two dimensions, so a table of several chains
\* has at most two dimensions and integer chain means
FitTables(dims) ==
    { t \in { Table(FitColumns(dims), rows) :
                rows \in UNION { [1..k -> FitRows(dims)] : k \in 0..MaxDraws } } :
        Cardinality(ChainsOf(t)) <= 1 \/ (dims <= 2 /\ IntegerMeans(t)) }

\* most latent dimensions of a fitted model
MaxDims == 3

\* run_stan_model has fitted the model and holds df_fit
InitPipeline ==
    /\ \E dims \in 1..MaxDims :
          /\ stan_data = [n_persons |-> 1, n_items |-> 1, D |-> dims]
          /\ df_fit \in FitTables(dims)
    /\ pipe_pc = "extract_persons"
    /\ person_chain_coords = EmptyDict
    /\ pipe_result = Pending
    /\ IdleExtract /\ IdleAlign /\ IdleRewrite /\ IdleCollapse /\ IdleParse

NextPipeline ==
    \/ PipeExtractPersons \/ PipeExtractItems \/ PipeAlign \/ PipeRewrite
    \/ PipeReturn \/ PipeRaise
    \/ ExtractChain \/ ExtractReturn
    \/ AlignStart \/ AlignSkipReference \/ AlignChain \/ AlignReturn
    \/ Rewrite

SpecPipeline == InitPipeline /\ [][NextPipeline]_vars

\* C16 as stated: the rewriter is called after the extractor and the aligner
\* with the number of dimensions both extractor calls got, stan_data["D"], and
\* in the table run_stan_model ends with every row of a chain holds the aligned
\* value in every coordinate column that was extracted and aligned.
C16_AsStated ==
    /\ pipe_pc \in {"rewrite", "done"} /\ rw_result # Raise("not called") =>
          /\ rw_D = stan_data.D
          /\ D = stan_data.D
    /\ pipe_result.kind = "return" =>
          LET out == frames[pipe_result.value]
          IN \A k \in 1..Len(out.rows) : \A d \in 1..stan_data.D :
                LET c == out.rows[k][ChainCol]
                IN /\ \A i \in 1..stan_data.n_persons :
                        out.rows[k][<<"xi", i, d>>] = aln_result.value[1][c][i - 1][d - 1]
                   /\ \A i \in 1..stan_data.n_items :
                        out.rows[k][<<"zt_centered", i, d>>]
                            = aln_result.value[2][c][i - 1][d - 1]

-----------------------------------------------------------------------------
(* create_aligned_draws_dataframe followed by extract_latent_coordinates on the *)
(* table it returned, and by a second call on that table with the same maps     *)

\* the columns of a draws table with every coordinate of n persons and one item
\* in w dimensions
FullColumns(n, w) ==
    {ChainCol, OtherCol} \cup { <<"xi", i, d>> : i \in 1..n, d \in 1..w }
                         \cup { <<"zt_centered", 1, d>> : d \in 1..w }

\* the draws tables over these columns, a draw holding one sampled value in all
\* its parameter columns
FullTables(n, w) ==
    { Table(FullColumns(n, w), rows) :
        rows \in UNION { [1..k -> { [c \in FullColumns(n, w) |->
                                        IF c = ChainCol THEN ch ELSE v] :
                                    ch \in ChainIds, v \in SampledValues }] :
                         k \in 0..MaxDraws } }

\* a call create_aligned_draws_dataframe(original_draws, aligned_person_coords,
\* aligned_item_coords, D) on a table that has the columns of the aligned shapes
InitRoundTrip ==
    /\ original_draws = 1
    /\ \E n \in 1..2 : \E w \in 1..2 :
          /\ draws_before \in FullTables(n, w)
          /\ \E cs \in {{1}, {1, 3}} : rw_person = AlignedMap("xi", cs, n, w)
          /\ \E cs \in {{1}, {1, 3}} : rw_item = AlignedMap("zt_centered", cs, 1, w)
    /\ frames = DictSet(EmptyDict, original_draws, draws_before)
    /\ rw_D \in 1..2
    /\ rw_result = Pending
    /\ IdleExtract /\ IdleAlign /\ IdleAux

\* the aligned map of the family pfx
AlignedFamily(pfx) == IF pfx = "xi" THEN rw_person ELSE rw_item

\* the number of rows the matrices of a coordinate map have
EntitiesOf(coords) == Shape(coords[CHOOSE c \in DOMAIN coords : TRUE])[1]

\* extract_latent_coordinates(returned table, n, D, prefix) is called, n the
\* number of rows of the aligned matrices of the family and D the rewriter's
RoundTripExtract ==
    /\ rw_result.kind = "return"
    /\ ext_result = Raise("not called")
    /\ \E pfx \in Prefixes :
          /\ prefix' = pfx
          /\ n_entities' = EntitiesOf(AlignedFamily(pfx))
    /\ df_draws' = frames[rw_result.value]
    /\ D' = rw_D
    /\ ext_todo' = Unique(Column(df_draws', ChainCol))
    /\ chain_means' = EmptyDict
    /\ ext_result' = Pending
    /\ UNCHANGED <<aln_vars, rw_vars, aux_vars>>

\* create_aligned_draws_dataframe is called again, on the table the first call
\* returned, with the same maps and D
RewriteAgain ==
    /\ rw_result.kind = "return"
    /\ Cardinality(DOMAIN frames) = 2
    /\ original_draws' = rw_result.value
    /\ draws_before' = frames[rw_result.value]
    /\ rw_result' = Pending
    /\ UNCHANGED <<frames, rw_person, rw_item, rw_D>>
    /\ UNCHANGED <<ext_vars, aln_vars, aux_vars>>

NextRoundTrip ==
    \/ Rewrite \/ RewriteAgain \/ RoundTripExtract
    \/ ExtractChain \/ ExtractRaise \/ ExtractReturn

SpecRoundTrip == InitRoundTrip /\ [][NextRoundTrip]_vars

\* the table has every coordinate column of the aligned shapes, its chains are
\* keys of both aligned maps, and the aligned matrices have D columns
RoundTripCase ==
    /\ ChainsOf(draws_before) \subseteq (DOMAIN rw_person) \cap (DOMAIN rw_item)
    /\ \A pfx \in Prefixes : \A c \in DOMAIN AlignedFamily(pfx) :
          /\ Shape(AlignedFamily(pfx)[c])[2] = rw_D
          /\ \A i \in 1..Shape(AlignedFamily(pfx)[c])[1] : \A d \in 1..rw_D :
                <<pfx, i, d>> \in draws_before.columns

-----------------------------------------------------------------------------
\* parse_process_data, data_import.py:131-245
\*
\* An event is the triple of the attributes the loop reads: action, id and
\* time.  The id is None when the attribute is absent; a present id is the
\* sequence of the pieces of its text, so that "in" and lower() act on the
\* text.  The time of an event is its position in the document (the logs are
\* in time order), so the time spent on an item is a difference of positions.
\* status, choice and responseType are copied into the interaction records
\* unread and are left out.

MaxEvents == 3

Id(text) == [present |-> TRUE, text |-> text]

\* bool(event_id): None and "" are both false
Truthy(id) == id.present /\ id.text # << >>

\* str.lower() on one piece of an id
LowerPiece(p) ==
    CASE p = "-FEEDBACK" -> "-feedback"
      [] p = "-Feedback" -> "-feedback"
      [] p = "ITEM1"     -> "item1"
      [] OTHER           -> p

\* event_id.lower()
Lower(text) == [k \in DOMAIN text |-> LowerPiece(text[k])]

\* piece in text
Contains(text, piece) == \E k \in DOMAIN text : text[k] = piece

\* interaction_data, data_import.py:207-214
InteractionData(event) ==
    [action |-> event.action, time |-> event.time, id |-> event.id]

\* the interactions the generator of response_changes goes through
Selected(inter) ==
    { k \in DOMAIN inter : inter[k].action = "responseSelected" }

\* "response_changes", data_import.py:187-192 and 233-238: i.get("id", "")
\* is None for an interaction whose id is None (the key is there), and
\* "-FEEDBACK" not in None raises TypeError
ResponseChanges(inter) ==
    IF \E k \in Selected(inter) : ~inter[k].id.present
    THEN Err("TypeError")
    ELSE Ok(Cardinality({ k \in Selected(inter) :
                            ~Contains(inter[k].id.text, "-FEEDBACK") }))

\* len(interactions), data_import.py:183 and 230
InteractionCount(inter) == Len(inter)

\* the dictionary appended to items_data, data_import.py:182-196 and 228-242
ItemRecord(item, spent, inter, exhibit) ==
    LET changes == ResponseChanges(inter)
    IN  IF ~changes.ok THEN changes
        ELSE Ok([item_id                   |-> item,
                 interaction_count         |-> InteractionCount(inter),
                 exhibit_interaction_count |-> Len(exhibit),
                 has_exhibit               |-> Len(exhibit) > 0,
                 response_changes          |-> changes.val,
                 time_spent_seconds        |-> spent,
                 interactions              |-> inter,
                 exhibit_interactions      |-> exhibit])

\* one pass of the loop over the events, data_import.py:171-223
ParseEvent ==
    /\ parse_result = Pending
    /\ ev_pos <= Len(events)
    /\ LET event    == events[ev_pos]
           entering == event.action = "itemEntered"
           closing  == entering /\ Truthy(current_item)
           closed   == ItemRecord(current_item, event.time - item_start_time,
                                  interactions, exhibit_interactions)
           item     == IF entering THEN event.id ELSE current_item
           inter    == IF entering THEN << >> ELSE interactions
           exhibit  == IF entering THEN << >> ELSE exhibit_interactions
           toExhibit == /\ Truthy(event.id)
                        /\ Contains(Lower(event.id.text), "-feedback")
       IN  IF closing /\ ~closed.ok
           THEN /\ parse_result' = Raise(closed.error)
                /\ UNCHANGED <<items_data, current_item, item_start_time,
                               interactions, exhibit_interactions, ev_pos>>
           ELSE /\ items_data' = IF closing THEN Append(items_data, closed.val)
                                 ELSE items_data
                /\ current_item' = item
                /\ item_start_time' = IF entering THEN event.time
                                      ELSE item_start_time
                /\ interactions' =
                       IF Truthy(item) /\ ~toExhibit
                       THEN Append(inter, InteractionData(event)) ELSE inter
                /\ exhibit_interactions' =
                       IF Truthy(item) /\ toExhibit
                       THEN Append(exhibit, InteractionData(event)) ELSE exhibit
                /\ ev_pos' = ev_pos + 1
                /\ UNCHANGED parse_result
    /\ UNCHANGED events
    /\ UNCHANGED <<ext_vars, aln_vars, rw_vars, cs_vars, pipe_vars>>

\* after the loop: the last item and the return, data_import.py:226-245
ParseFinish ==
    /\ parse_result = Pending
    /\ ev_pos > Len(events)
    /\ LET last == ItemRecord(current_item, 0, interactions,
                              exhibit_interactions)
       IN  IF ~Truthy(current_item)
           THEN /\ parse_result' = Return(items_data)
                /\ UNCHANGED items_data
           ELSE IF ~last.ok
           THEN /\ parse_result' = Raise(last.error)
                /\ UNCHANGED items_data
           ELSE /\ items_data' = Append(items_data, last.val)
                /\ parse_result' = Return(items_data')
    /\ UNCHANGED <<events, ev_pos, current_item, item_start_time,
                   interactions, exhibit_interactions>>
    /\ UNCHANGED <<ext_vars, aln_vars, rw_vars, cs_vars, pipe_vars>>

EventActions == {"itemEntered", "responseSelected"}

EventIds ==
    {NoId, Id(<< >>), Id(<<"item1">>), Id(<<"item1", "-Feedback">>)}

\* the event lists of a document of at most MaxEvents events
EventLists ==
    UNION { [1..n -> [action : EventActions, id : EventIds]] : n \in 0..MaxEvents }

InitParse ==
    /\ \E list \in EventLists :
          events = [k \in DOMAIN list |->
                       [action |-> list[k].action, id |-> list[k].id,
                        time |-> k]]
    /\ ev_pos = 1
    /\ items_data = << >>
    /\ current_item = NoId
    /\ item_start_time = 0
    /\ interactions = << >>
    /\ exhibit_interactions = << >>
    /\ parse_result = Pending
    /\ IdleExtract /\ IdleAlign /\ IdleRewrite /\ IdleCollapse /\ IdlePipeline

NextParse == ParseEvent \/ ParseFinish

SpecParse == InitParse /\ [][NextParse]_vars

\* the positions of the itemEntered events
EnteredAt == { k \in DOMAIN events : events[k].action = "itemEntered" }

\* the position of the j-th itemEntered event
NthEntered(j) ==
    CHOOSE k \in EnteredAt : Cardinality({ m \in EnteredAt : m <= k }) = j

\* the number of events from position k up to the next itemEntered event
EventsOfItem(k) ==
    Cardinality({ m \in DOMAIN events :
                    m >= k /\ \A e \in EnteredAt : e > k => m < e })

\* the events a record counts
Counted(rec) == rec.interaction_count + rec.exhibit_interaction_count

RECURSIVE CountedUpTo(_, _)
CountedUpTo(items, n) ==
    IF n = 0 THEN 0 ELSE Counted(items[n]) + CountedUpTo(items, n - 1)

\* the number of events from the first itemEntered event onward
FromFirstEntered ==
    Cardinality({ m \in DOMAIN events : \E e \in EnteredAt : e <= m })

\* the counting the claim describes, of a returned list of records
CountsEveryEvent(items) ==
    /\ Len(items) = Cardinality(EnteredAt)
    /\ \A j \in DOMAIN items :
          /\ items[j].item_id = events[NthEntered(j)].id
          /\ Counted(items[j]) = EventsOfItem(NthEntered(j))
    /\ CountedUpTo(items, Len(items)) = FromFirstEntered

\* C18: for any sequence of events the call returns one item record per
\* itemEntered event, in entry order; every event from the first itemEntered
\* onward is counted in the record of the most recently entered item, and the
\* counts of all records add up to the number of those events.
C18_AsStated ==
    parse_result # Pending =>
        /\ parse_result.kind = "return"
        /\ CountsEveryEvent(parse_result.value)

=============================================================================
